---- MODULE Spec2Model ----
(***************************************************************************)
(* A model of build.js, the generator of the fiction gallery page:         *)
(*   - the caption functions escapeHtml, smartTypography, addFootnoteLinks,*)
(*     formatCaption and getPreview, on strings held as sequences of       *)
(*     one-character strings;                                              *)
(*   - build(): fetch, parse, the manual entries, the feed entries, the    *)
(*     write of index.html, and the catch handler that ends the process;   *)
(*   - the lightbox script of the generated page.                          *)
(*                                                                         *)
(* A JavaScript string is a sequence whose elements are its characters.    *)
(* Characters outside ASCII are named: "EMDASH" is U+2014, "LDQUO" U+201C, *)
(* "RDQUO" U+201D, "LSQUO" U+2018, "RSQUO" U+2019; each is one element, as *)
(* each is one UTF-16 code unit.  The literal pieces of the HTML templates *)
(* of formatCaption and addFootnoteLinks are kept as single elements.      *)
(***************************************************************************)
EXTENDS Integers, Sequences, FiniteSets, TLC

VARIABLES
  \* ---- one call of formatCaption or getPreview
  fn,           \* which function is called
  text,         \* its argument, a JavaScript value
  pc,           \* where the call is: "call", "loop", "render", "done"
  lines,        \* formatCaption: text.split('\n')
  li,           \* formatCaption: number of lines the for loop has processed
  mainText,     \* formatCaption: the lines pushed to mainText
  inFootnotes,  \* formatCaption: the flag
  footnotes,    \* formatCaption: the object, as its own keys in Object.keys order
  result,       \* the returned string
  threw,        \* the call ended with a TypeError
  \* ---- build()
  bpc,          \* where build() is
  fetched,      \* what fetchFeed's promise settled with
  fetchCalls,   \* number of calls of fetchFeed
  parsed,       \* what parseStringPromise settled with
  feedEntry,    \* result.feed.entry as xml2js delivers it
  entries,      \* the entries array after normalisation and reverse()
  ek,           \* number of entries the running for loop has processed
  gridItems,    \* thumbnails pushed so far
  lightboxSlides, \* slides pushed so far
  currentIndex, \* build's display index counter
  written,      \* index.html has been written
  diag,         \* console.error('Build failed:', err) was printed
  exitCode,     \* the status the process ended with (-1: still running)
  \* ---- the lightbox script of the generated page
  slides,       \* the .slide elements: each one's data-post-url
  lbActive,     \* the lightbox element has class "active"
  activeSlides, \* the indexes of the slides that have class "active"
  lbIndex,      \* the script's currentIndex
  counterText,  \* #current-num's textContent
  commentHref,  \* #comment-link's href
  bodyOverflow, \* document.body.style.overflow
  touchStartX,  \* the script's touchStartX
  opened,       \* a thumbnail has been clicked
  lbThrew       \* a handler ended with a TypeError

fmtVars == <<fn, text, pc, lines, li, mainText, inFootnotes, footnotes, result, threw>>
buildVars == <<bpc, fetched, fetchCalls, parsed, feedEntry, entries, ek, gridItems,
               lightboxSlides, currentIndex, written, diag, exitCode>>
lbVars == <<slides, lbActive, activeSlides, lbIndex, counterText, commentHref,
            bodyOverflow, touchStartX, opened, lbThrew>>
vars == <<fmtVars, buildVars, lbVars>>

----------------------------------------------------------------------------
(* Characters and generic string operations.                               *)

NL == "\n"
CR == "\r"
TAB == "\t"
DQ == "\""
SQ == "'"

\* \s of a JavaScript regular expression and the characters trim() strips,
\* restricted to the characters the model's inputs use.
IsWS(c) == c \in {" ", TAB, CR, NL}

\* The characters "." of a regular expression does not match.
IsLineTerminator(c) == c \in {NL, CR}

IsDigit(c) == c \in {"0", "1", "2", "3", "4", "5", "6", "7", "8", "9"}

\* pat occurs in s at position i.
MatchAt(s, i, pat) ==
  /\ i + Len(pat) - 1 <= Len(s)
  /\ \A k \in 1..Len(pat) : s[i + k - 1] = pat[k]

SetMin(S) == CHOOSE a \in S : \A b \in S : a <= b
SetMax(S) == CHOOSE a \in S : \A b \in S : a >= b

\* String.prototype.replace with a global literal pattern: every occurrence,
\* left to right, without overlap.  Each step copies the text up to the next
\* occurrence at or after i and resumes after it.
RECURSIVE ReplaceAllFrom(_, _, _, _)
ReplaceAllFrom(s, i, pat, rep) ==
  LET hits == {j \in i..Len(s) : MatchAt(s, j, pat)}
  IN IF hits = {} THEN SubSeq(s, i, Len(s))
     ELSE LET j == SetMin(hits)
          IN SubSeq(s, i, j - 1) \o rep \o ReplaceAllFrom(s, j + Len(pat), pat, rep)

ReplaceAll(s, pat, rep) == ReplaceAllFrom(s, 1, pat, rep)

\* String.prototype.replace with a string pattern: the first occurrence only.
ReplaceFirst(s, pat, rep) ==
  LET hits == {i \in 1..Len(s) : MatchAt(s, i, pat)}
  IN IF hits = {} THEN s
     ELSE LET i == SetMin(hits)
          IN SubSeq(s, 1, i - 1) \o rep \o SubSeq(s, i + Len(pat), Len(s))

\* String.prototype.trim.
Trim(s) ==
  LET keep == {i \in 1..Len(s) : ~IsWS(s[i])}
  IN IF keep = {} THEN <<>>
     ELSE SubSeq(s, SetMin(keep), SetMax(keep))

\* String.prototype.split with a one-character separator from the set seps:
\* text.split('\n') and plain.split(/[.!?]/).
RECURSIVE SplitFrom(_, _, _)
SplitFrom(s, i, seps) ==
  LET hits == {j \in i..Len(s) : s[j] \in seps}
  IN IF hits = {} THEN <<SubSeq(s, i, Len(s))>>
     ELSE LET j == SetMin(hits)
          IN <<SubSeq(s, i, j - 1)>> \o SplitFrom(s, j + 1, seps)

Split(s, seps) == SplitFrom(s, 1, seps)

\* Array.prototype.join.
RECURSIVE Join(_, _)
Join(ls, sep) ==
  IF Len(ls) = 0 THEN <<>>
  ELSE IF Len(ls) = 1 THEN ls[1]
  ELSE ls[1] \o sep \o Join(Tail(ls), sep)

----------------------------------------------------------------------------
(* escapeHtml and smartTypography on strings (the typeof guards are in the *)
(* callers below, which only pass strings).                                *)

escapeHtml(s) ==
  LET a == ReplaceAll(s, <<"&">>, <<"&", "a", "m", "p", ";">>)
      b == ReplaceAll(a, <<"<">>, <<"&", "l", "t", ";">>)
      c == ReplaceAll(b, <<">">>, <<"&", "g", "t", ";">>)
  IN ReplaceAll(c, <<DQ>>, <<"&", "q", "u", "o", "t", ";">>)

\* The characters [\s(\[{] that may precede an opening quote.
IsOpenContext(c) == IsWS(c) \/ c \in {"(", "[", "{"}

\* The characters [\s.,;:!?\)\]}] that may follow a closing quote.
IsCloseContext(c) == IsWS(c) \/ c \in {".", ",", ";", ":", "!", "?", ")", "]", "}"}

\* s.replace(/(^|[\s(\[{])Q/g, '$1O'): the character before a match is never
\* itself a quote, so matches cannot overlap and each Q is decided by the
\* character before it.
OpenQuotes(s, q, o) ==
  [i \in 1..Len(s) |->
     IF s[i] = q /\ (i = 1 \/ IsOpenContext(s[i - 1])) THEN o ELSE s[i]]

\* s.replace(/Q([\s.,;:!?\)\]}]|$)/g, 'C$1'): likewise decided by the
\* character after it.
CloseQuotes(s, q, c) ==
  [i \in 1..Len(s) |->
     IF s[i] = q /\ (i = Len(s) \/ IsCloseContext(s[i + 1])) THEN c ELSE s[i]]

smartTypography(s) ==
  LET d1 == ReplaceAll(s, <<" ", "-", "-", " ">>, <<" ", "EMDASH", " ">>)
      d2 == ReplaceAll(d1, <<"-", "-">>, <<"EMDASH">>)
      q1 == OpenQuotes(d2, DQ, "LDQUO")
      q2 == CloseQuotes(q1, DQ, "RDQUO")
      q3 == ReplaceAll(q2, <<DQ>>, <<"RDQUO">>)
      a1 == OpenQuotes(q3, SQ, "LSQUO")
  IN ReplaceAll(a1, <<SQ>>, <<"RSQUO">>)

----------------------------------------------------------------------------
(* JavaScript values.  A primitive or a plain value is [t, s, n]: its type *)
(* tag, its characters when it is a string, its value when a number.       *)

JSString(s) == [t |-> "string", s |-> s, n |-> 0]
JSNumber(n) == [t |-> "number", s |-> <<>>, n |-> n]
JSUndefined == [t |-> "undefined", s |-> <<>>, n |-> 0]
JSNull == [t |-> "null", s |-> <<>>, n |-> 0]
JSObject == [t |-> "object", s |-> <<>>, n |-> 0]
JSArray == [t |-> "array", s |-> <<>>, n |-> 0]

\* ToBoolean: what !v negates.
Truthy(v) ==
  CASE v.t = "string" -> v.s # <<>>
    [] v.t = "number" -> v.n # 0
    [] v.t \in {"undefined", "null"} -> FALSE
    [] OTHER -> TRUE

\* What a function of this file returns: a string, or a TypeError thrown by a
\* call of a string method on a value that has none.
Returned(s) == [threw |-> FALSE, s |-> s]
Thrown == [threw |-> TRUE, s |-> <<>>]

----------------------------------------------------------------------------
(* The footnotes object: its own properties, in the order Object.keys      *)
(* lists them.  A key is the digit string a regular expression captured.   *)

Digits == <<"0", "1", "2", "3", "4", "5", "6", "7", "8", "9">>
DigitVal(c) == (CHOOSE k \in 1..10 : Digits[k] = c) - 1

RECURSIVE ToNum(_)
ToNum(ds) ==
  IF Len(ds) = 0 THEN 0
  ELSE ToNum(SubSeq(ds, 1, Len(ds) - 1)) * 10 + DigitVal(ds[Len(ds)])

\* A property key that is an array index: a canonical numeric string below
\* 2^32 - 1.  Every canonical string of at most nine digits is one; longer keys
\* are beyond the keys the model draws.
IsArrayIndex(k) ==
  /\ Len(k) >= 1
  /\ Len(k) <= 9
  /\ (Len(k) = 1 \/ k[1] # "0")

ObjHas(o, k) == \E i \in 1..Len(o) : o[i].key = k

\* o[k], for a key o has.
ObjGet(o, k) == o[CHOOSE i \in 1..Len(o) : o[i].key = k].val

\* Object.keys(o): array-index keys in ascending numeric order, then the
\* other string keys in the order they were created.
ObjKeys(o) == [i \in 1..Len(o) |-> o[i].key]

\* o[k] = v: an existing property keeps its place; a new array-index key is
\* placed by its numeric value, any other new key last.
ObjSet(o, k, v) ==
  IF ObjHas(o, k)
  THEN [i \in 1..Len(o) |-> IF o[i].key = k THEN [key |-> k, val |-> v] ELSE o[i]]
  ELSE IF IsArrayIndex(k)
       THEN LET before == Cardinality({i \in 1..Len(o) :
                              IsArrayIndex(o[i].key) /\ ToNum(o[i].key) < ToNum(k)})
            IN SubSeq(o, 1, before) \o <<[key |-> k, val |-> v]>>
                 \o SubSeq(o, before + 1, Len(o))
       ELSE Append(o, [key |-> k, val |-> v])

----------------------------------------------------------------------------
(* The regular expressions of formatCaption.                               *)

\* The end of the greedy run \s* or \d* that starts at position i: the first
\* position at or after i that holds no such character.
SkipWS(s, i) == SetMin({j \in i..Len(s) : ~IsWS(s[j])} \cup {Len(s) + 1})

SkipDigits(s, i) == SetMin({j \in i..Len(s) : ~IsDigit(s[j])} \cup {Len(s) + 1})

NoMatch == [ok |-> FALSE, num |-> <<>>, rest |-> <<>>, end |-> 0]

\* /\[FN\s*(\d+)\]/ tried at position i of s: the captured digits and the
\* position of the closing bracket.
MarkerAt(s, i) ==
  IF ~MatchAt(s, i, <<"[", "F", "N">>) THEN NoMatch
  ELSE LET d == SkipWS(s, i + 3)
           e == SkipDigits(s, d)
       IN IF e > d /\ e <= Len(s) /\ s[e] = "]"
          THEN [ok |-> TRUE, num |-> SubSeq(s, d, e - 1), rest |-> <<>>, end |-> e]
          ELSE NoMatch

\* line.match(/^\[FN\s*(\d+)\]\s*(.+)$/): after the marker, \s* gives back
\* what (.+) needs, and (.+) must reach the end of the line without crossing a
\* line terminator.
DefMatch(line) ==
  LET m == MarkerAt(line, 1)
  IN IF ~m.ok \/ m.end = Len(line) THEN NoMatch
     ELSE LET w == SkipWS(line, m.end + 1)
              from == IF w > Len(line) THEN Len(line) ELSE w
              grp == SubSeq(line, from, Len(line))
          IN IF \E k \in 1..Len(grp) : IsLineTerminator(grp[k]) THEN NoMatch
             ELSE [ok |-> TRUE, num |-> m.num, rest |-> grp, end |-> Len(line)]

\* line.match(/^\[FN/)
StartsWithFN(line) == MatchAt(line, 1, <<"[", "F", "N">>)

----------------------------------------------------------------------------
(* addFootnoteLinks and formatCaption.                                     *)

AnchorCloseTag == "</a>"
MinorMageTerm == <<"M", "i", "n", "o", "r", " ", "M", "a", "g", "e">>
MinorMageOpenTag == "<a href=\"https://amzn.to/4bBWxD9\" target=\"_blank\" rel=\"noopener\">"
IdealCityTerm == <<"LDQUO", "i", "d", "e", "a", "l", " ", "c", "i", "t", "y", "RDQUO">>
IdealCityOpenTag == "<a href=\"https://acoup.blog/2019/07/12/collections-the-lonely-city-part-i-the-ideal-city/\" target=\"_blank\" rel=\"noopener\">"

addFootnoteLinks(s) ==
  LET a == ReplaceFirst(s, MinorMageTerm,
                        <<MinorMageOpenTag>> \o MinorMageTerm \o <<AnchorCloseTag>>)
  IN ReplaceFirst(a, IdealCityTerm,
                  <<IdealCityOpenTag>> \o IdealCityTerm \o <<AnchorCloseTag>>)

RefOpenTag == "<span class=\"footnote-ref\" tabindex=\"0\"><sup>"
RefMidTag == "</sup><span class=\"footnote-tooltip\">"
RefCloseTag == "</span></span>"
SupOpenTag == "<sup class=\"footnote-ref\">"
SupCloseTag == "</sup>"
BrTag == "<br>"

\* The state of the for loop of formatCaption before its first line.
LoopStart == [mainText |-> <<>>, inFootnotes |-> FALSE, footnotes |-> <<>>]

\* ProcessLine with a blank line ending the footnote section: the variant in
\* which the parser falls back to BODY.
ProcessLineBlankResets(st, line) ==
  LET fnMatch == DefMatch(line)
  IN IF fnMatch.ok
     THEN [st EXCEPT !.inFootnotes = TRUE,
                     !.footnotes = ObjSet(st.footnotes, fnMatch.num, Trim(fnMatch.rest))]
     ELSE IF st.inFootnotes /\ Trim(line) = <<>>
     THEN [st EXCEPT !.inFootnotes = FALSE]
     ELSE IF st.inFootnotes /\ ~StartsWithFN(line)
     THEN LET keys == ObjKeys(st.footnotes)
          IN IF Len(keys) = 0 THEN st
             ELSE LET lastKey == keys[Len(keys)]
                  IN [st EXCEPT !.footnotes =
                        ObjSet(st.footnotes, lastKey,
                               ObjGet(st.footnotes, lastKey) \o <<" ">> \o Trim(line))]
     ELSE IF ~st.inFootnotes
     THEN [st EXCEPT !.mainText = Append(st.mainText, line)]
     ELSE st

\* One iteration of the for loop over the lines.
ProcessLine(st, line) ==
  LET fnMatch == DefMatch(line)
  IN IF fnMatch.ok
     THEN [st EXCEPT !.inFootnotes = TRUE,
                     !.footnotes = ObjSet(st.footnotes, fnMatch.num, Trim(fnMatch.rest))]
     ELSE IF st.inFootnotes /\ Trim(line) # <<>> /\ ~StartsWithFN(line)
     THEN LET keys == ObjKeys(st.footnotes)
          IN IF Len(keys) = 0 THEN st
             ELSE LET lastKey == keys[Len(keys)]
                  IN [st EXCEPT !.footnotes =
                        ObjSet(st.footnotes, lastKey,
                               ObjGet(st.footnotes, lastKey) \o <<" ">> \o Trim(line))]
     ELSE IF ~st.inFootnotes
     THEN [st EXCEPT !.mainText = Append(st.mainText, line)]
     ELSE st

\* RenderMarker deciding by the presence of the key alone: the variant that
\* attaches a tooltip to every recorded number, whatever its text.
RenderMarkerByKey(num, fnotes) ==
  LET footnoteText == addFootnoteLinks(
                        IF ObjHas(fnotes, num)
                        THEN escapeHtml(smartTypography(ObjGet(fnotes, num)))
                        ELSE <<>>)
  IN IF ObjHas(fnotes, num)
     THEN <<RefOpenTag>> \o num \o <<RefMidTag>> \o footnoteText \o <<RefCloseTag>>
     ELSE <<SupOpenTag>> \o num \o <<SupCloseTag>>

\* The callback of formatted.replace(/\[FN\s*(\d+)\]/g, ...).
RenderMarker(num, fnotes) ==
  LET defined == ObjHas(fnotes, num) /\ ObjGet(fnotes, num) # <<>>
      footnoteText == addFootnoteLinks(
                        IF defined THEN escapeHtml(smartTypography(ObjGet(fnotes, num)))
                        ELSE <<>>)
  IN IF footnoteText # <<>>
     THEN <<RefOpenTag>> \o num \o <<RefMidTag>> \o footnoteText \o <<RefCloseTag>>
     ELSE <<SupOpenTag>> \o num \o <<SupCloseTag>>

RECURSIVE ReplaceMarkersFrom(_, _, _)
ReplaceMarkersFrom(s, i, fnotes) ==
  LET hits == {j \in i..Len(s) : MarkerAt(s, j).ok}
  IN IF hits = {} THEN SubSeq(s, i, Len(s))
     ELSE LET m == MarkerAt(s, SetMin(hits))
          IN SubSeq(s, i, SetMin(hits) - 1) \o RenderMarker(m.num, fnotes)
               \o ReplaceMarkersFrom(s, m.end + 1, fnotes)

\* formatCaption after its loop: typography, escape, markers, line breaks.
RenderCaption(main, fnotes) ==
  LET formatted == escapeHtml(smartTypography(Join(main, <<NL>>)))
      withRefs == ReplaceMarkersFrom(formatted, 1, fnotes)
  IN ReplaceAll(withRefs, <<NL>>, <<BrTag>>)

RECURSIVE FoldLines(_, _, _)
FoldLines(st, ls, i) ==
  IF i > Len(ls) THEN st ELSE FoldLines(ProcessLine(st, ls[i]), ls, i + 1)

\* formatCaption(text) as one function.
formatCaption(v) ==
  IF ~Truthy(v) THEN Returned(<<>>)
  ELSE IF v.t # "string" THEN Thrown
  ELSE LET st == FoldLines(LoopStart, Split(v.s, {NL}), 1)
       IN Returned(RenderCaption(st.mainText, st.footnotes))

----------------------------------------------------------------------------
(* getPreview.                                                             *)

Ellipsis == <<".", ".", ".">>

RECURSIVE StripMarkersFrom(_, _)
StripMarkersFrom(s, i) ==
  LET hits == {j \in i..Len(s) : MarkerAt(s, j).ok}
  IN IF hits = {} THEN SubSeq(s, i, Len(s))
     ELSE SubSeq(s, i, SetMin(hits) - 1)
            \o StripMarkersFrom(s, MarkerAt(s, SetMin(hits)).end + 1)

\* text.replace(/\[FN\s*\d+\]/g, '').trim()
PreviewPlain(s) == Trim(StripMarkersFrom(s, 1))

\* plain.split(/[.!?]/)[0]
FirstSentence(plain) == Split(plain, {".", "!", "?"})[1]

\* PreviewRaw cutting at the threshold itself: the variant that keeps 120
\* characters of a long first sentence.
PreviewRawCutAtThreshold(plain) ==
  LET firstSentence == FirstSentence(plain)
  IN IF Len(firstSentence) > 120
     THEN SubSeq(firstSentence, 1, 120) \o Ellipsis
     ELSE firstSentence \o (IF Len(plain) > Len(firstSentence) THEN Ellipsis ELSE <<>>)

\* The string getPreview hands to smartTypography and escapeHtml.
PreviewRaw(plain) ==
  LET firstSentence == FirstSentence(plain)
  IN IF Len(firstSentence) > 120
     THEN SubSeq(firstSentence, 1, 117) \o Ellipsis
     ELSE firstSentence \o (IF Len(plain) > Len(firstSentence) THEN Ellipsis ELSE <<>>)

getPreview(v) ==
  IF ~Truthy(v) THEN Returned(<<>>)
  ELSE IF v.t # "string" THEN Thrown
  ELSE Returned(escapeHtml(smartTypography(PreviewRaw(PreviewPlain(v.s)))))

----------------------------------------------------------------------------
(* build(): the data.                                                      *)

\* A property of a parsed XML node, undefined when the node has none.
Prop(node, name) ==
  IF "p" \in DOMAIN node /\ name \in DOMAIN node.p THEN node.p[name] ELSE JSUndefined

\* An element node as xml2js delivers it: an object with the given properties.
JSNode(props) == [t |-> "object", s |-> <<>>, n |-> 0, p |-> props]

extractText(node) ==
  IF ~Truthy(node) THEN JSString(<<>>)
  ELSE IF node.t = "string" THEN node
  ELSE IF Prop(node, "_").t = "string" THEN Prop(node, "_")
  ELSE IF node.t \in {"object", "array"}
       THEN IF Truthy(Prop(node, "$t")) THEN Prop(node, "$t")
            ELSE IF Truthy(Prop(node, "content")) THEN Prop(node, "content")
            ELSE JSString(<<>>)
  ELSE JSString(<<>>)

\* TEXT_REPLACEMENTS has one rule, { from: /^Dogs --/, to: '...dogs --' };
\* text.replace is a TypeError on a value that is not a string.
applyTextReplacements(v) ==
  IF v.t # "string" THEN Thrown
  ELSE IF MatchAt(v.s, 1, <<"D", "o", "g", "s", " ", "-", "-">>)
       THEN Returned(<<".", ".", ".", "d", "o", "g", "s", " ", "-", "-">>
                       \o SubSeq(v.s, 8, Len(v.s)))
       ELSE Returned(v.s)

ManualImage1 ==
     << "h", "t", "t", "p", "s", ":", "/", "/", "p", "x", "s", "c", "d", "n", ".", "c", "o",
        "m", "/", "p", "u", "b", "l", "i", "c", "/", "m", "/", "_", "v", "2", "/", "3", "7",
        "2", "4", "2", "4", "6", "5", "8", "8", "9", "1", "9", "5", "4", "6", "9", "4", "/",
        "c", "1", "9", "c", "e", "1", "b", "2", "5", "-", "2", "f", "8", "8", "4", "3", "/",
        "f", "J", "K", "R", "z", "3", "V", "J", "E", "K", "X", "n", "/", "i", "b", "b", "5",
        "D", "A", "E", "s", "B", "7", "m", "v", "3", "x", "4", "g", "h", "c", "R", "f", "E",
        "d", "v", "d", "7", "H", "0", "7", "a", "l", "M", "N", "n", "i", "L", "1", "H", "o",
        "n", "j", ".", "p", "n", "g" >>

ManualTitle1 ==
     << "B", "e", "h", "e", "m", "o", "t", "h", "s", " ", "l", "i", "v", "e", " ", "p", "r",
        "i", "m", "a", "r", "i", "l", "y", " ", "a", "m", "o", "n", "g", " ", "t", "h", "e",
        " ", "s", "t", "a", "r", "s", ",", " ", "b", "u", "t", " ", "l", "i", "k", "e", " ",
        "f", "r", "o", "g", "s", " ", "a", "n", "d", " ", "w", "a", "t", "e", "r", ",", " ",
        "t", "h", "e", "i", "r", " ", "y", "o", "u", "n", "g", " ", "n", "e", "e", "d", " ",
        "s", "o", "i", "l", " ", "t", "o", " ", "g", "e", "s", "t", "a", "t", "e", " ", "a",
        "n", "d", " ", "g", "r", "o", "w", ".", " ", "H", "u", "m", "a", "n", "k", "i", "n",
        "d", " ", "d", "i", "s", "c", "o", "v", "e", "r", "e", "d", " ", "t", "h", "e", " ",
        "b", "e", "h", "e", "m", "o", "t", "h", " ", "w", "h", "e", "n", " ", "a", " ", "s",
        "e", "e", "d", " ", "s", "l", "a", "m", "m", "e", "d", " ", "t", "o", " ", "g", "r",
        "o", "u", "n", "d", " ", "a", "n", "d", " ", "d", "e", "s", "t", "r", "o", "y", "e",
        "d", " ", "a", " ", "s", "a", "c", "r", "e", "d", " ", "g", "r", "o", "v", "e", " ",
        "b", "a", "c", "k", " ", "o", "n", " ", "o", "u", "r", " ", "h", "o", "m", "e", " ",
        "p", "l", "a", "n", "e", "t", ".", " ", "A", "f", "t", "e", "r", " ", "a", " ", "w",
        "a", "r", " ", "o", "r", " ", "t", "w", "o", ",", " ", "o", "u", "r", " ", "t", "w",
        "o", " ", "s", "p", "e", "c", "i", "e", "s", " ", "e", "n", "t", "e", "r", "e", "d",
        " ", "i", "n", "t", "o", " ", "s", "y", "m", "b", "i", "o", "s", "i", "s", " ", "w",
        "i", "t", "h", " ", "o", "n", "e", " ", "a", "n", "o", "t", "h", "e", "r", ".", " ",
        "H", "u", "m", "a", "n", "s", " ", "p", "r", "o", "t", "e", "c", "t", "e", "d", " ",
        "t", "h", "e", " ", "s", "e", "e", "d", "s", ",", " ", "l", "e", "a", "r", "n", "e",
        "d", " ", "t", "o", " ", "c", "o", "m", "m", "u", "n", "e", " ", "w", "i", "t", "h",
        " ", "t", "h", "e", " ", "j", "u", "v", "e", "n", "i", "l", "e", ",", " ", "a", "n",
        "d", " ", "j", "o", "i", "n", "e", "d", " ", "t", "h", "e", " ", "y", "o", "u", "n",
        "g", "l", "i", "n", "g", " ", "i", "n", " ", "t", "h", "e", " ", "s", "t", "a", "r",
        "s", ".", " ", "F", "o", "r", " ", "t", "h", "o", "u", "s", "a", "n", "d", "s", " ",
        "o", "f", " ", "y", "e", "a", "r", "s", ",", " ", "w", "e", " ", "h", "a", "v", "e",
        " ", "j", "o", "u", "r", "n", "e", "y", "e", "d", " ", "f", "r", "o", "m", " ", "s",
        "t", "a", "r", " ", "t", "o", " ", "s", "t", "a", "r", " ", "w", "i", "t", "h", " ",
        "t", "h", "e", " ", "b", "e", "h", "e", "m", "o", "t", "h", " ", "s", "p", "a", "w",
        "n", " ", "t", "h", "e", "y", " ", "h", "a", "v", "e", " ", "s", "u", "c", "c", "o",
        "r", "e", "d", ",", " ", "a", "n", "d", " ", "i", "n", " ", "t", "h", "e", " ", "p",
        "r", "o", "c", "e", "s", "s", ",", " ", "c", "o", "l", "o", "n", "i", "z", "e", "d",
        " ", "u", "n", "k", "n", "o", "w", "a", "b", "l", "e", " ", "p", "l", "a", "n", "e",
        "t", "s", ".", NL, NL, "M", "y", " ", "g", "r", "e", "a", "t", ",", " ", "g", "r", "e",
        "a", "t", ",", " ", "g", "r", "e", "a", "t", " ", "g", "r", "a", "n", "d", "m", "o",
        "t", "h", "e", "r", " ", "b", "r", "e", "d", " ", "d", "o", "g", "s", " ", "i", "n",
        " ", "t", "h", "e", " ", "b", "e", "l", "l", "y", " ", "o", "f", " ", "s", "u", "c",
        "h", " ", "a", " ", "b", "e", "a", "s", "t", ".", " ", "I", SQ, "l", "l", " ", "n",
        "e", "v", "e", "r", " ", "s", "e", "e", " ", "o", "n", "e", "." >>

ManualPost1 ==
     << "h", "t", "t", "p", "s", ":", "/", "/", "p", "i", "x", "e", "l", "f", "e", "d", ".",
        "s", "o", "c", "i", "a", "l", "/", "p", "/", "e", "l", "e", "a", "n", "o", "r", "k",
        "o", "n", "i", "k", "/", "9", "1", "0", "7", "4", "3", "1", "6", "1", "5", "8", "4",
        "5", "5", "9", "2", "8", "4" >>

ManualImage2 ==
     << "h", "t", "t", "p", "s", ":", "/", "/", "p", "x", "s", "c", "d", "n", ".", "c", "o",
        "m", "/", "p", "u", "b", "l", "i", "c", "/", "m", "/", "_", "v", "2", "/", "3", "7",
        "2", "4", "2", "4", "6", "5", "8", "8", "9", "1", "9", "5", "4", "6", "9", "4", "/",
        "c", "1", "9", "c", "e", "1", "b", "2", "5", "-", "2", "f", "8", "8", "4", "3", "/",
        "B", "s", "k", "u", "L", "A", "2", "0", "N", "G", "M", "l", "/", "b", "a", "I", "g",
        "p", "R", "O", "K", "k", "n", "0", "i", "A", "e", "B", "K", "R", "x", "I", "H", "J",
        "G", "Q", "V", "c", "I", "N", "D", "G", "T", "I", "m", "V", "2", "W", "O", "E", "2",
        "k", "G", ".", "p", "n", "g" >>

ManualTitle2 ==
     << "W", "h", "e", "n", " ", "a", " ", "B", "e", "h", "e", "m", "o", "t", "h", " ", "l",
        "a", "u", "n", "c", "h", "e", "s", " ", "i", "t", "s", "e", "l", "f", " ", "i", "n",
        "t", "o", " ", "t", "h", "e", " ", "s", "t", "a", "r", "s", ",", " ", "i", "t", " ",
        "t", "a", "k", "e", "s", " ", "w", "i", "t", "h", " ", "i", "t", " ", "a", " ", "b",
        "r", "e", "e", "d", "i", "n", "g", " ", "p", "o", "p", "u", "l", "a", "t", "i", "o",
        "n", " ", "o", "f", " ", "h", "u", "m", "a", "n", "s", ",", " ", "w", "h", "i", "c",
        "h", " ", "l", "i", "v", "e", " ", "i", "n", "s", "i", "d", "e", " ", "t", "h", "e",
        " ", "b", "e", "l", "l", "y", " ", "o", "f", " ", "t", "h", "e", " ", "b", "e", "a",
        "s", "t", ",", " ", "g", "e", "t", "t", "i", "n", "g", " ", "a", "l", "l", " ", "t",
        "h", "e", "i", "r", " ", "n", "u", "t", "r", "i", "e", "n", "t", "s", " ", "a", "n",
        "d", " ", "a", "i", "r", " ", "f", "r", "o", "m", " ", "i", "n", "s", "i", "d", "e",
        " ", "t", "h", "e", " ", "c", "a", "v", "e", "r", "n", ",", " ", "u", "n", "t", "i",
        "l", " ", "i", "t", " ", "f", "i", "n", "d", "s", " ", "a", " ", "m", "a", "t", "e",
        ".", " ", "T", "h", "e", "n", ",", " ", "t", "h", "e", " ", "m", "a", "l", "e", " ",
        "B", "e", "h", "e", "m", "o", "t", "h", " ", "c", "a", "r", "v", "e", "s", " ", "a",
        " ", "n", "e", "s", "t", " ", "i", "n", " ", "t", "h", "e", " ", "s", "o", "i", "l",
        " ", "w", "h", "i", "l", "e", " ", "t", "h", "e", " ", "f", "e", "m", "a", "l", "e",
        " ", "f", "e", "e", "d", "s", " ", "o", "n", " ", "t", "h", "e", " ", "n", "e", "a",
        "r", "b", "y", " ", "s", "t", "a", "r", ".", " ", "S", "h", "e", " ", "p", "l", "a",
        "n", "t", "s", " ", "t", "h", "e", " ", "s", "e", "e", "d", ",", " ", "t", "h", "e",
        " ", "m", "a", "l", "e", " ", "f", "e", "r", "t", "i", "l", "i", "z", "e", "s", " ",
        "i", "t", ",", " ", "a", "n", "d", " ", "e", "a", "c", "h", " ", "d", "i", "s", "g",
        "o", "r", "g", "e", "s", " ", "a", " ", "p", "o", "r", "t", "i", "o", "n", " ", "o",
        "f", " ", "t", "h", "e", "i", "r", " ", "h", "u", "m", "a", "n", " ", "p", "o", "p",
        "u", "l", "a", "t", "i", "o", "n", " ", "t", "o", " ", "s", "e", "r", "v", "e", " ",
        "a", "s", " ", "c", "a", "r", "e", "t", "a", "k", "e", "r", "s", " ", "f", "o", "r",
        " ", "t", "h", "e", " ", "s", "e", "e", "d", ",", " ", "l", "e", "a", "v", "i", "n",
        "g", " ", "t", "h", "e", "m", " ", "f", "r", "e", "e", " ", "t", "o", " ", "r", "o",
        "a", "m", " ", "t", "h", "e", " ", "s", "t", "a", "r", "s", " ", "o", "n", "c", "e",
        " ", "m", "o", "r", "e", ".", NL, NL, "T", "h", "e", "n", ",", " ", "t", "h", "e", " ",
        "h", "u", "m", "a", "n", "s", " ", "s", "p", "e", "n", "d", " ", "l", "o", "n", "g",
        " ", "y", "e", "a", "r", "s", " ", "s", "c", "o", "u", "t", "i", "n", "g", ",", " ",
        "a", "n", "d", " ", "b", "u", "i", "l", "d", "i", "n", "g", ",", " ", "a", "n", "d",
        " ", "n", "e", "g", "o", "t", "i", "a", "t", "i", "n", "g", " ", "a", " ", "n", "e",
        "w", " ", "h", "i", "e", "r", "a", "r", "c", "h", "y", " ", "a", "n", "d", " ", "s",
        "o", "c", "i", "a", "l", " ", "o", "r", "d", "e", "r", ".", " ", "O", "f", "t", "e",
        "n", ",", " ", "t", "h", "e", "r", "e", " ", "a", "r", "e", " ", "e", "x", "t", "e",
        "r", "n", "a", "l", " ", "t", "h", "r", "e", "a", "t", "s", " ", "t", "h", "a", "t",
        " ", "n", "e", "e", "d", " ", "t", "o", " ", "b", "e", " ", "d", "e", "a", "l", "t",
        " ", "w", "i", "t", "h", " ", "-", "-", " ", "j", "u", "s", "t", " ", "t", "h", "e",
        " ", "t", "h", "i", "n", "g", " ", "f", "o", "r", " ", "f", "o", "r", "g", "i", "n",
        "g", " ", "a", " ", "u", "n", "i", "t", "e", "d", " ", "p", "o", "p", "u", "l", "a",
        "t", "i", "o", "n", ".", NL, NL, "O", "n", " ", "t", "h", "e", " ", "t", "a", "l", "l",
        "e", "s", "t", " ", "m", "o", "u", "n", "t", "a", "i", "n", " ", "o", "n", " ", "t",
        "h", "e", " ", "p", "l", "a", "n", "e", "t", " ", "k", "n", "o", "w", "n", " ", "a",
        "s", " ", "P", "i", "e", "r", "a", "n", ",", " ", "t", "h", "e", "r", "e", " ", "s",
        "t", "a", "n", "d", "s", " ", "a", " ", "s", "m", "a", "l", "l", " ", "o", "b", "s",
        "e", "r", "v", "a", "t", "i", "o", "n", " ", "t", "o", "w", "e", "r", " ", "b", "u",
        "i", "l", "t", " ", "o", "f", " ", "w", "o", "o", "d", ",", " ", "a", "n", "d", " ",
        "f", "r", "o", "m", " ", "i", "t", ",", " ", "o", "n", "e", " ", "c", "a", "n", " ",
        "s", "e", "e", ".", ".", "." >>

ManualPost2 ==
     << "h", "t", "t", "p", "s", ":", "/", "/", "p", "i", "x", "e", "l", "f", "e", "d", ".",
        "s", "o", "c", "i", "a", "l", "/", "p", "/", "e", "l", "e", "a", "n", "o", "r", "k",
        "o", "n", "i", "k", "/", "9", "1", "0", "7", "3", "8", "2", "0", "5", "7", "3", "9",
        "3", "1", "1", "2", "3", "4" >>

MANUAL_ENTRIES ==
  << [imageUrl |-> ManualImage1, title |-> JSString(ManualTitle1), postUrl |-> ManualPost1],
     [imageUrl |-> ManualImage2, title |-> JSString(ManualTitle2), postUrl |-> ManualPost2] >>

----------------------------------------------------------------------------
(* The parts of the state a specification leaves alone.                    *)

FormatIdle ==
  /\ fn = "none" /\ text = JSUndefined /\ pc = "idle" /\ lines = <<>> /\ li = 0
  /\ mainText = <<>> /\ inFootnotes = FALSE /\ footnotes = <<>>
  /\ result = <<>> /\ threw = FALSE

BuildIdle ==
  /\ bpc = "idle" /\ fetched = "none" /\ fetchCalls = 0 /\ parsed = "none"
  /\ feedEntry = [shape |-> "none", items |-> <<>>] /\ entries = <<>> /\ ek = 0
  /\ gridItems = <<>> /\ lightboxSlides = <<>> /\ currentIndex = 0
  /\ written = FALSE /\ diag = FALSE /\ exitCode = -1

LightboxIdle ==
  /\ slides = <<>> /\ lbActive = FALSE /\ activeSlides = {} /\ lbIndex = 0
  /\ counterText = 1 /\ commentHref = "#" /\ bodyOverflow = ""
  /\ touchStartX = 0 /\ opened = FALSE /\ lbThrew = FALSE

----------------------------------------------------------------------------
(* One call of formatCaption or of getPreview on a value drawn from the    *)
(* inputs below.                                                           *)

MaxLines == 4
MaxFill == 123

\* Caption lines: a body line with three markers, a prose line, a blank line,
\* definitions of 1, 2 and 10, a definition whose text is one space, and a
\* marker alone on its line.
CaptionLines ==
  { <<"x", "[", "F", "N", "1", "]", "[", "F", "N", "2", "]", "[", "F", "N", "1", "]">>,
    <<" ", DQ, "q", DQ, "-", "-", "&", " ">>,
    <<>>,
    <<"[", "F", "N", "1", "]", " ", "o", "n", "e">>,
    <<"[", "F", "N", "2", "]", " ", "M", "i", "n", "o", "r", " ", "M", "a", "g", "e">>,
    <<"[", "F", "N", "1", "]", " ">>,
    <<"[", "F", "N", "1", "]">>,
    <<"[", "F", "N", "1", "0", "]", " ", "t">> }

CaptionInputs ==
  {JSString(Join(ls, <<NL>>)) : ls \in UNION {[1..k -> CaptionLines] : k \in 1..MaxLines}}

Fill(n) == [i \in 1..n |-> "a"]
FillSizes == {0, 1, 5} \cup ((MaxFill - 11)..MaxFill)
PreviewHeads ==
  { <<>>, <<"[", "F", "N", "1", "]">>, <<" ">>, <<"&">>, <<"-", "-">>, <<DQ>> }
PreviewTails ==
  { <<>>, <<".">>, <<".", " ", "b">>, <<"!">>, <<"?", "x">>,
    <<"[", "F", "N", " ", "2", "]">>, <<".", "[", "F", "N", "2", "]">> }

PreviewInputs ==
  {JSString(h \o Fill(n) \o t) : h \in PreviewHeads, n \in FillSizes, t \in PreviewTails}

NonStrings == {JSUndefined, JSNull, JSNumber(0), JSNumber(42), JSObject, JSArray}

InitFormat ==
  /\ fn \in {"formatCaption", "getPreview"}
  /\ text \in (IF fn = "formatCaption" THEN CaptionInputs ELSE PreviewInputs)
                \cup NonStrings
  /\ pc = "call" /\ lines = <<>> /\ li = 0
  /\ mainText = <<>> /\ inFootnotes = FALSE /\ footnotes = <<>>
  /\ result = <<>> /\ threw = FALSE
  /\ BuildIdle /\ LightboxIdle

\* formatCaption up to its loop: the guard, then text.split('\n').
FmtCall ==
  /\ pc = "call" /\ fn = "formatCaption"
  /\ IF ~Truthy(text)
     THEN /\ pc' = "done"
          /\ UNCHANGED <<lines, threw>>
     ELSE IF text.t # "string"
     THEN /\ pc' = "done" /\ threw' = TRUE
          /\ UNCHANGED lines
     ELSE /\ pc' = "loop" /\ lines' = Split(text.s, {NL})
          /\ UNCHANGED threw
  /\ UNCHANGED <<fn, text, li, mainText, inFootnotes, footnotes, result>>
  /\ UNCHANGED <<buildVars, lbVars>>

\* One iteration of the loop.
FmtLine ==
  /\ pc = "loop" /\ li < Len(lines)
  /\ LET st == ProcessLine([mainText |-> mainText, inFootnotes |-> inFootnotes,
                            footnotes |-> footnotes], lines[li + 1])
     IN /\ mainText' = st.mainText
        /\ inFootnotes' = st.inFootnotes
        /\ footnotes' = st.footnotes
  /\ li' = li + 1
  /\ UNCHANGED <<fn, text, pc, lines, result, threw>>
  /\ UNCHANGED <<buildVars, lbVars>>

\* The rest of formatCaption, after the loop.
FmtRender ==
  /\ pc = "loop" /\ li = Len(lines)
  /\ result' = RenderCaption(mainText, footnotes)
  /\ pc' = "done"
  /\ UNCHANGED <<fn, text, lines, li, mainText, inFootnotes, footnotes, threw>>
  /\ UNCHANGED <<buildVars, lbVars>>

\* getPreview, whole.
PreviewCall ==
  /\ pc = "call" /\ fn = "getPreview"
  /\ LET r == getPreview(text)
     IN result' = r.s /\ threw' = r.threw
  /\ pc' = "done"
  /\ UNCHANGED <<fn, text, lines, li, mainText, inFootnotes, footnotes>>
  /\ UNCHANGED <<buildVars, lbVars>>

NextFormat == FmtCall \/ FmtLine \/ FmtRender \/ PreviewCall

SpecFormat == InitFormat /\ [][NextFormat]_vars

----------------------------------------------------------------------------
(* build(): one run of the script, from the call of build() to the end of  *)
(* the process.                                                            *)

MaxFeed == 3

\* Feed entries as xml2js delivers them (explicitArray: false).  img is
\* entry.media_content?.$?.url and href is entry.link?.$?.href, each the empty
\* string when any part of the chain is missing; title is the title node.
FeedCatalog ==
  { [img |-> <<"i", "1">>, href |-> <<"p", "1">>,
     title |-> JSString(<<"D", "o", "g", "s", " ", "-", "-", " ", "x", ".", " ", "y">>)],
    [img |-> <<>>, href |-> <<"p", "2">>, title |-> JSString(<<"n", ".">>)],
    [img |-> <<"i", "&", "3">>, href |-> <<>>,
     title |-> JSNode("_" :> JSString(<<"b", "[", "F", "N", "1", "]", NL,
                                        "[", "F", "N", "1", "]", " ", "c">>))],
    [img |-> <<"i", "4">>, href |-> <<"p", "4">>,
     title |-> JSNode("content" :> JSNode("_" :> JSString(<<"z">>)))],
    [img |-> <<"i", "5">>, href |-> <<"p", "?", "a", "&", "b">>, title |-> JSUndefined] }

Feeds == UNION {[1..k -> FeedCatalog] : k \in 0..MaxFeed}

\* feed.entry for a feed with these entries: missing for none, the entry
\* itself for one, an array for more.
FeedEntryOf(items) ==
  [shape |-> IF Len(items) = 0 THEN "absent"
             ELSE IF Len(items) = 1 THEN "single" ELSE "array",
   items |-> items]

Reverse(q) == [k \in 1..Len(q) |-> q[Len(q) + 1 - k]]

\* EntriesOldestFirst without the reverse(): the variant that keeps the order
\* of the feed, newest first.
EntriesInFeedOrder(fe) ==
  IF fe.shape = "array" THEN fe.items
  ELSE IF fe.shape = "single" THEN <<fe.items[1]>> ELSE <<>>

\* Lines 180-189: entries made an array, then entries.reverse().
EntriesOldestFirst(fe) ==
  Reverse(IF fe.shape = "array" THEN fe.items
          ELSE IF fe.shape = "single" THEN <<fe.items[1]>> ELSE <<>>)

\* What addEntry pushes for one entry, given the preview and the formatted
\* caption of its title: the thumbnail and the slide.
GridItem(imageUrl, preview, index) ==
  [index |-> index, src |-> escapeHtml(imageUrl), preview |-> preview]

Slide(imageUrl, formattedCaption, postLink, index) ==
  [index |-> index, postUrl |-> escapeHtml(postLink), src |-> escapeHtml(imageUrl),
   caption |-> formattedCaption]

\* getPreview(title) and formatCaption(title) of the manual entries, which are
\* the same in every run.
ManualPreviews ==
  [k \in 1..Len(MANUAL_ENTRIES) |-> getPreview(MANUAL_ENTRIES[k].title).s]

ManualCaptions ==
  [k \in 1..Len(MANUAL_ENTRIES) |-> formatCaption(MANUAL_ENTRIES[k].title).s]

Init ==
  /\ bpc = "start" /\ fetched = "none" /\ fetchCalls = 0 /\ parsed = "none"
  /\ feedEntry = [shape |-> "none", items |-> <<>>] /\ entries = <<>> /\ ek = 0
  /\ gridItems = <<>> /\ lightboxSlides = <<>> /\ currentIndex = 0
  /\ written = FALSE /\ diag = FALSE /\ exitCode = -1
  /\ FormatIdle /\ LightboxIdle

\* fetchFeed resolves with the body it received, whatever the body is.
FetchResolve ==
  /\ bpc = "start"
  /\ fetchCalls' = fetchCalls + 1
  /\ fetched' = "body"
  /\ bpc' = "parse"
  /\ UNCHANGED <<parsed, feedEntry, entries, ek, gridItems, lightboxSlides,
                 currentIndex, written, diag, exitCode>>
  /\ UNCHANGED <<fmtVars, lbVars>>

\* fetchFeed rejects: an 'error' event of the request or of the response.
FetchReject ==
  /\ bpc = "start"
  /\ fetchCalls' = fetchCalls + 1
  /\ \E kind \in {"request error", "response error"} : fetched' = kind
  /\ bpc' = "rejected"
  /\ UNCHANGED <<parsed, feedEntry, entries, ek, gridItems, lightboxSlides,
                 currentIndex, written, diag, exitCode>>
  /\ UNCHANGED <<fmtVars, lbVars>>

\* parseStringPromise resolves: with a document whose root is feed, holding
\* some entries, or with a result that has no feed.
ParseResolve ==
  /\ bpc = "parse"
  /\ \/ /\ parsed' = "feed"
        /\ \E items \in Feeds : feedEntry' = FeedEntryOf(items)
     \/ /\ parsed' = "no feed"
        /\ UNCHANGED feedEntry
  /\ bpc' = "read"
  /\ UNCHANGED <<fetched, fetchCalls, entries, ek, gridItems, lightboxSlides,
                 currentIndex, written, diag, exitCode>>
  /\ UNCHANGED <<fmtVars, lbVars>>

\* parseStringPromise rejects: the body is not well-formed XML.
ParseReject ==
  /\ bpc = "parse"
  /\ parsed' = "error"
  /\ bpc' = "rejected"
  /\ UNCHANGED <<fetched, fetchCalls, feedEntry, entries, ek, gridItems,
                 lightboxSlides, currentIndex, written, diag, exitCode>>
  /\ UNCHANGED <<fmtVars, lbVars>>

\* Lines 179-193 and 217: feed.entry (a TypeError when result.feed is
\* undefined), the entries array, reverse(), the empty output arrays.
ReadEntries ==
  /\ bpc = "read"
  /\ IF parsed = "no feed"
     THEN /\ bpc' = "rejected"
          /\ UNCHANGED entries
     ELSE /\ entries' = EntriesOldestFirst(feedEntry)
          /\ bpc' = "manual"
  /\ UNCHANGED <<fetched, fetchCalls, parsed, feedEntry, ek, gridItems,
                 lightboxSlides, currentIndex, written, diag, exitCode>>
  /\ UNCHANGED <<fmtVars, lbVars>>

\* One iteration of the loop over MANUAL_ENTRIES; after the last one the loop
\* over the feed entries starts.
AddManual ==
  /\ bpc = "manual" /\ ek < Len(MANUAL_ENTRIES)
  /\ LET entry == MANUAL_ENTRIES[ek + 1]
     IN /\ gridItems' = Append(gridItems,
                               GridItem(entry.imageUrl, ManualPreviews[ek + 1],
                                        currentIndex))
        /\ lightboxSlides' = Append(lightboxSlides,
                               Slide(entry.imageUrl, ManualCaptions[ek + 1],
                                     entry.postUrl, currentIndex))
  /\ currentIndex' = currentIndex + 1
  /\ IF ek + 1 = Len(MANUAL_ENTRIES)
     THEN bpc' = "feed" /\ ek' = 0
     ELSE bpc' = "manual" /\ ek' = ek + 1
  /\ UNCHANGED <<fetched, fetchCalls, parsed, feedEntry, entries, written, diag,
                 exitCode>>
  /\ UNCHANGED <<fmtVars, lbVars>>

\* AddFeed counting every entry: the variant in which an entry without an
\* image still takes a display index.
AddFeedCountsEveryEntry ==
  /\ bpc = "feed" /\ ek < Len(entries)
  /\ LET entry == entries[ek + 1]
         imageUrl == entry.img
         postUrl == entry.href
         title == applyTextReplacements(extractText(entry.title))
     IN IF title.threw
        THEN /\ bpc' = "rejected"
             /\ UNCHANGED <<ek, gridItems, lightboxSlides, currentIndex>>
        ELSE /\ IF imageUrl # <<>>
                THEN /\ gridItems' = Append(gridItems,
                           GridItem(imageUrl, getPreview(JSString(title.s)).s,
                                    currentIndex))
                     /\ lightboxSlides' = Append(lightboxSlides,
                           Slide(imageUrl, formatCaption(JSString(title.s)).s,
                                 postUrl, currentIndex))
                ELSE UNCHANGED <<gridItems, lightboxSlides>>
             /\ currentIndex' = currentIndex + 1
             /\ ek' = ek + 1
             /\ UNCHANGED bpc
  /\ UNCHANGED <<fetched, fetchCalls, parsed, feedEntry, entries, written, diag,
                 exitCode>>
  /\ UNCHANGED <<fmtVars, lbVars>>

\* One iteration of the loop over the feed entries.  applyTextReplacements
\* throws on a title that extractText did not turn into a string, and build()
\* rejects.
AddFeed ==
  /\ bpc = "feed" /\ ek < Len(entries)
  /\ LET entry == entries[ek + 1]
         imageUrl == entry.img
         postUrl == entry.href
         title == applyTextReplacements(extractText(entry.title))
     IN IF title.threw
        THEN /\ bpc' = "rejected"
             /\ UNCHANGED <<ek, gridItems, lightboxSlides, currentIndex>>
        ELSE /\ IF imageUrl # <<>>
                THEN /\ gridItems' = Append(gridItems,
                           GridItem(imageUrl, getPreview(JSString(title.s)).s,
                                    currentIndex))
                     /\ lightboxSlides' = Append(lightboxSlides,
                           Slide(imageUrl, formatCaption(JSString(title.s)).s,
                                 postUrl, currentIndex))
                     /\ currentIndex' = currentIndex + 1
                ELSE UNCHANGED <<gridItems, lightboxSlides, currentIndex>>
             /\ ek' = ek + 1
             /\ UNCHANGED bpc
  /\ UNCHANGED <<fetched, fetchCalls, parsed, feedEntry, entries, written, diag,
                 exitCode>>
  /\ UNCHANGED <<fmtVars, lbVars>>

\* Lines 242-379: the page is assembled from the two arrays and written.
WriteOutput ==
  /\ bpc = "feed" /\ ek = Len(entries)
  /\ written' = TRUE
  /\ bpc' = "written"
  /\ UNCHANGED <<fetched, fetchCalls, parsed, feedEntry, entries, ek, gridItems,
                 lightboxSlides, currentIndex, diag, exitCode>>
  /\ UNCHANGED <<fmtVars, lbVars>>

\* build() resolved: nothing is left to run and the process ends normally.
ExitNormally ==
  /\ bpc = "written"
  /\ exitCode' = 0
  /\ bpc' = "exited"
  /\ UNCHANGED <<fetched, fetchCalls, parsed, feedEntry, entries, ek, gridItems,
                 lightboxSlides, currentIndex, written, diag>>
  /\ UNCHANGED <<fmtVars, lbVars>>

\* CatchExit that only logs: the variant in which the process then ends with
\* status 0.
CatchExitLogsOnly ==
  /\ bpc = "rejected"
  /\ diag' = TRUE
  /\ exitCode' = 0
  /\ bpc' = "exited"
  /\ UNCHANGED <<fetched, fetchCalls, parsed, feedEntry, entries, ek, gridItems,
                 lightboxSlides, currentIndex, written>>
  /\ UNCHANGED <<fmtVars, lbVars>>

\* build().catch(...): console.error and process.exit(1).
CatchExit ==
  /\ bpc = "rejected"
  /\ diag' = TRUE
  /\ exitCode' = 1
  /\ bpc' = "exited"
  /\ UNCHANGED <<fetched, fetchCalls, parsed, feedEntry, entries, ek, gridItems,
                 lightboxSlides, currentIndex, written>>
  /\ UNCHANGED <<fmtVars, lbVars>>

Next ==
  \/ FetchResolve \/ FetchReject \/ ParseResolve \/ ParseReject \/ ReadEntries
  \/ AddManual \/ AddFeed \/ WriteOutput \/ ExitNormally \/ CatchExit

Spec == Init /\ [][Next]_vars

----------------------------------------------------------------------------
(* Properties of formatCaption and getPreview (under SpecFormat).          *)

\* The elements of a finite set of numbers, ascending.
SortedSeq(S) ==
  [k \in 1..Cardinality(S) |-> CHOOSE x \in S : Cardinality({y \in S : y < x}) = k - 1]

EndsWith(s, suffix) ==
  Len(s) >= Len(suffix) /\ SubSeq(s, Len(s) - Len(suffix) + 1, Len(s)) = suffix

\* The call is formatCaption on a non-empty string, past the guard.
FmtOnString ==
  fn = "formatCaption" /\ text.t = "string" /\ Truthy(text) /\ pc \in {"loop", "done"}

\* The call is getPreview on a non-empty string and has returned.
PreviewOnString ==
  fn = "getPreview" /\ text.t = "string" /\ Truthy(text) /\ pc = "done"

DefLines == {k \in 1..Len(lines) : DefMatch(lines[k]).ok}
FirstDefLine == SetMin(DefLines \cup {Len(lines) + 1})
DefinedNums == {DefMatch(lines[k]).num : k \in DefLines}

\* The trimmed text of the last definition line of number n.
LastDefText(n) ==
  Trim(DefMatch(lines[SetMax({k \in DefLines : DefMatch(lines[k]).num = n})]).rest)

\* C1: once a definition line has been processed, no later line of the caption
\* is added to the body: at every point of the loop mainText is exactly the
\* processed lines that precede the first definition line, whatever follows it
\* (prose, blank lines, further definitions).
C1_BodyEndsAtFirstDefinition ==
  FmtOnString =>
    mainText = SubSeq(lines, 1, IF li < FirstDefLine THEN li ELSE FirstDefLine - 1)

\* C1's case: a body line, then a definition, a blank line after it and prose
\* after the blank line, all processed.
C1_ProseAfterBlankAfterDefinition ==
  /\ FmtOnString /\ pc = "done" /\ mainText # <<>>
  /\ \E d, b, p \in 1..Len(lines) :
       /\ d < b /\ b < p
       /\ d \in DefLines
       /\ Trim(lines[b]) = <<>>
       /\ Trim(lines[p]) # <<>> /\ ~StartsWithFN(lines[p])

\* Line k is a continuation line: it follows a definition line, is not blank,
\* is not a definition and does not start with a marker.
IsContinuation(k) ==
  /\ \E d \in DefLines : d < k
  /\ Trim(lines[k]) # <<>>
  /\ ~DefMatch(lines[k]).ok
  /\ ~StartsWithFN(lines[k])

\* The number of the definition line processed last before line k.
LatestDefNum(k) == DefMatch(lines[SetMax({d \in DefLines : d < k})]).num

\* C2: a continuation line is appended, after one space and trimmed, to the
\* footnote whose definition line was processed most recently, and no other
\* footnote changes.
C2_ContinuationExtendsLatestDefinition ==
  [][(FmtOnString /\ pc = "loop" /\ li < Len(lines) /\ IsContinuation(li + 1))
       => footnotes' = ObjSet(footnotes, LatestDefNum(li + 1),
                              ObjGet(footnotes, LatestDefNum(li + 1))
                                \o <<" ">> \o Trim(lines[li + 1]))]_vars

\* The markers of the body, in order, and what the result shows for each.
BodyText == Join(mainText, <<NL>>)
BodyMarkers == SortedSeq({j \in 1..Len(BodyText) : MarkerAt(BodyText, j).ok})
ResultRefs == SortedSeq({j \in 1..Len(result) : result[j] \in {RefOpenTag, SupOpenTag}})

FirstAfter(s, i, tag) == SetMin({j \in (i + 1)..Len(s) : s[j] = tag})

\* The reference the result holds at position i: its number and, when it is
\* the interactive form, its tooltip text.
RefAt(s, i) ==
  IF s[i] = RefOpenTag
  THEN LET m == FirstAfter(s, i, RefMidTag)
           c == FirstAfter(s, m, RefCloseTag)
       IN [interactive |-> TRUE, num |-> SubSeq(s, i + 1, m - 1),
           tooltip |-> SubSeq(s, m + 1, c - 1)]
  ELSE [interactive |-> FALSE, num |-> SubSeq(s, i + 1, FirstAfter(s, i, SupCloseTag) - 1),
        tooltip |-> <<>>]

HasText(n) == ObjHas(footnotes, n) /\ ObjGet(footnotes, n) # <<>>

C4_EllipsisIffMoreTextFollows ==
  LET plain == PreviewPlain(text.s)
      first == FirstSentence(plain)
  IN (PreviewOnString /\ Len(first) >= 1 /\ Len(first) <= 120) =>
       (EndsWith(result, Ellipsis) <=> Len(plain) > Len(first) + 1)

\* The characters whose replacement changes the length of a string.
KeepsLength(s) ==
  /\ \A k \in 1..Len(s) : s[k] \notin {"&", "<", ">"}
  /\ \A k \in 1..Len(s) : ~MatchAt(s, k, <<"-", "-">>)

C8_NonStringGivesEmptyString ==
  (pc = "done" /\ text.t # "string") => (~threw /\ result = <<>>)

----------------------------------------------------------------------------
(* Properties of build() (under Spec).                                     *)

HasImage(e) == e.img # <<>>

\* The manual entries and a feed entry as the page is to show them: image,
\* post URL, and the preview and the caption of the entry's own title.
ManualShown ==
  [k \in 1..Len(MANUAL_ENTRIES) |->
     [img |-> MANUAL_ENTRIES[k].imageUrl, href |-> MANUAL_ENTRIES[k].postUrl,
      preview |-> getPreview(MANUAL_ENTRIES[k].title).s,
      caption |-> formatCaption(MANUAL_ENTRIES[k].title).s]]

FeedShown(e) ==
  LET title == JSString(applyTextReplacements(extractText(e.title)).s)
  IN [img |-> e.img, href |-> e.href,
      preview |-> getPreview(title).s, caption |-> formatCaption(title).s]

\* The feed entries as the feed lists them, last listed first.
ListedReversed == Reverse(feedEntry.items)

\* The entries build() has shown so far, in the order it has met them: the
\* manual entries, then the feed entries with an image among the first ek of
\* the feed read backwards.
Shown ==
  IF bpc = "manual" THEN SubSeq(ManualShown, 1, ek)
  ELSE ManualShown
         \o [k \in 1..Len(SelectSeq(SubSeq(ListedReversed, 1, ek), HasImage)) |->
               FeedShown(SelectSeq(SubSeq(ListedReversed, 1, ek), HasImage)[k])]

BuildInLoops == bpc \in {"manual", "feed", "written"} \/ (bpc = "exited" /\ written)
BuildWritten == bpc = "written" \/ (bpc = "exited" /\ written)

\* C6: the thumbnails and the slides have the same length, the k-th of each
\* carries display index k (from 0, without gap or repeat) and both describe
\* the k-th entry shown; a feed entry without an image is in neither and takes
\* no index.
C6_ThumbnailsAndSlidesAligned ==
  BuildInLoops =>
    /\ Len(gridItems) = Len(Shown)
    /\ Len(lightboxSlides) = Len(Shown)
    /\ currentIndex = Len(Shown)
    /\ \A k \in 1..Len(Shown) :
         /\ gridItems[k].index = k - 1
         /\ lightboxSlides[k].index = k - 1
         /\ gridItems[k].src = escapeHtml(Shown[k].img)
         /\ lightboxSlides[k].src = escapeHtml(Shown[k].img)
         /\ lightboxSlides[k].postUrl = escapeHtml(Shown[k].href)
         /\ gridItems[k].preview = Shown[k].preview
         /\ lightboxSlides[k].caption = Shown[k].caption

\* C6's case: the page is written after a feed entry without an image was
\* skipped and a later entry with an image was added.
C6_EntryWithoutImageSkipped ==
  /\ BuildWritten
  /\ \E i, j \in 1..Len(entries) :
       i < j /\ entries[i].img = <<>> /\ entries[j].img # <<>>
  /\ Len(gridItems) < Len(MANUAL_ENTRIES) + Len(entries)

\* The positions, in the feed as listed, of the entries that have an image.
ListedWithImage == SortedSeq({k \in 1..Len(feedEntry.items) : HasImage(feedEntry.items[k])})

\* C7: in the written page the manual entries come first, in their listed
\* order, and the feed entries follow in the reverse of the order in which the
\* feed lists them, for a feed of no, one or several entries.
C7_ManualFirstThenFeedReversed ==
  BuildWritten =>
    LET nm == Len(MANUAL_ENTRIES)
        m == Len(ListedWithImage)
    IN /\ Len(gridItems) = nm + m
       /\ Len(lightboxSlides) = nm + m
       /\ \A k \in 1..nm :
            /\ gridItems[k].src = escapeHtml(MANUAL_ENTRIES[k].imageUrl)
            /\ lightboxSlides[k].postUrl = escapeHtml(MANUAL_ENTRIES[k].postUrl)
       /\ \A j \in 1..m :
            LET e == feedEntry.items[ListedWithImage[m + 1 - j]]
            IN /\ gridItems[nm + j].src = escapeHtml(e.img)
               /\ lightboxSlides[nm + j].src = escapeHtml(e.img)
               /\ lightboxSlides[nm + j].postUrl = escapeHtml(e.href)

\* C7's case: the page is written for a feed that lists two entries with
\* different images.
C7_TwoFeedEntriesWritten ==
  /\ BuildWritten
  /\ \E i, j \in 1..Len(feedEntry.items) :
       /\ i < j
       /\ HasImage(feedEntry.items[i]) /\ HasImage(feedEntry.items[j])
       /\ feedEntry.items[i].img # feedEntry.items[j].img

FetchErrors == {"request error", "response error"}

\* C9: when the fetch fails there is one call of fetchFeed and no more, nothing
\* is parsed or formatted, no page is written, and the process ends only with
\* the diagnostic printed and status 1; the page is written only after the
\* fetch, the parse and the loops over all entries have completed.
C9_FetchFailureEndsBuild ==
  /\ fetchCalls <= 1
  /\ fetched \in FetchErrors =>
       /\ fetchCalls = 1
       /\ parsed = "none"
       /\ gridItems = <<>> /\ lightboxSlides = <<>>
       /\ ~written
       /\ bpc \in {"rejected", "exited"}
       /\ bpc = "exited" => (diag /\ exitCode = 1)
  /\ written =>
       /\ fetched = "body" /\ parsed = "feed"
       /\ ek = Len(entries)
       /\ currentIndex = Len(MANUAL_ENTRIES)
                           + Cardinality({k \in 1..Len(entries) : HasImage(entries[k])})
       /\ ~diag
  /\ diag => (exitCode = 1 /\ ~written)

\* C9's case: the fetch failed and the process has ended.
C9_ExitedAfterFetchFailure ==
  bpc = "exited" /\ fetched \in FetchErrors /\ diag /\ exitCode = 1

----------------------------------------------------------------------------
(* The lightbox script of the generated page: the handlers, on a page with *)
(* the given slides.  Thumbnail k has data-index k, as build() writes it.  *)

MaxSlides == 3
SwipeThreshold == 50

PostUrls == {"https://pixelfed.social/p/1", "https://pixelfed.social/p/2"}
TouchXs == {0, 49, 50, 51, 101, 200}
Keys == {"Escape", "ArrowRight", "ArrowLeft", "Home", "End", "a"}

InitLightbox ==
  /\ slides \in UNION {[1..n -> PostUrls] : n \in 0..MaxSlides}
  /\ lbActive = FALSE /\ activeSlides = {} /\ lbIndex = 0
  /\ counterText = 1 /\ commentHref = "#" /\ bodyOverflow = ""
  /\ touchStartX = 0 /\ opened = FALSE /\ lbThrew = FALSE
  /\ FormatIdle /\ BuildIdle

\* The % of JavaScript: the remainder has the sign of the dividend.
JSRem(a, n) == IF a >= 0 THEN a % n ELSE -((-a) % n)

\* The argument nextSlide passes to showSlide; with no slide the remainder is
\* NaN, which is the index of no slide (-1 here).
NextIndex == IF Len(slides) = 0 THEN -1 ELSE JSRem(lbIndex + 1, Len(slides))

\* PrevIndex without the added length: the variant whose remainder is
\* negative at the first slide.
PrevIndexNoWrap == IF Len(slides) = 0 THEN -1 ELSE JSRem(lbIndex - 1, Len(slides))

\* The argument prevSlide passes to showSlide.
PrevIndex == IF Len(slides) = 0 THEN -1 ELSE JSRem(lbIndex - 1 + Len(slides), Len(slides))

\* showSlide(index): every slide loses "active"; slides[index].classList is a
\* TypeError when there is no such slide, and the rest does not run.
ShowSlide(index) ==
  IF index \in 0..(Len(slides) - 1)
  THEN /\ activeSlides' = {index}
       /\ lbIndex' = index
       /\ counterText' = index + 1
       /\ commentHref' = slides[index + 1]
       /\ UNCHANGED lbThrew
  ELSE /\ activeSlides' = {}
       /\ lbThrew' = TRUE
       /\ UNCHANGED <<lbIndex, counterText, commentHref>>

\* A click on thumbnail k: openLightbox(parseInt(item.dataset.index)).
ClickThumb(k) ==
  /\ k \in 0..(Len(slides) - 1)
  /\ ShowSlide(k)
  /\ lbActive' = TRUE
  /\ bodyOverflow' = "hidden"
  /\ opened' = TRUE
  /\ UNCHANGED <<slides, touchStartX>>
  /\ UNCHANGED <<fmtVars, buildVars>>

\* closeLightbox: the close button or a click on the lightbox itself.
ClickClose ==
  /\ lbActive' = FALSE
  /\ bodyOverflow' = ""
  /\ UNCHANGED <<slides, activeSlides, lbIndex, counterText, commentHref, touchStartX,
                 opened, lbThrew>>
  /\ UNCHANGED <<fmtVars, buildVars>>

ClickNext ==
  /\ ShowSlide(NextIndex)
  /\ UNCHANGED <<slides, lbActive, bodyOverflow, touchStartX, opened>>
  /\ UNCHANGED <<fmtVars, buildVars>>

ClickPrev ==
  /\ ShowSlide(PrevIndex)
  /\ UNCHANGED <<slides, lbActive, bodyOverflow, touchStartX, opened>>
  /\ UNCHANGED <<fmtVars, buildVars>>

ClickFirst ==
  /\ ShowSlide(0)
  /\ UNCHANGED <<slides, lbActive, bodyOverflow, touchStartX, opened>>
  /\ UNCHANGED <<fmtVars, buildVars>>

ClickLast ==
  /\ ShowSlide(Len(slides) - 1)
  /\ UNCHANGED <<slides, lbActive, bodyOverflow, touchStartX, opened>>
  /\ UNCHANGED <<fmtVars, buildVars>>

\* The keydown handler.
KeyDown(key) ==
  IF ~lbActive THEN UNCHANGED vars
  ELSE CASE key = "Escape" -> ClickClose
         [] key = "ArrowRight" -> ClickNext
         [] key = "ArrowLeft" -> ClickPrev
         [] key = "Home" -> ClickFirst
         [] key = "End" -> ClickLast
         [] OTHER -> UNCHANGED vars

TouchStart(x) ==
  /\ touchStartX' = x
  /\ UNCHANGED <<slides, lbActive, activeSlides, lbIndex, counterText, commentHref,
                 bodyOverflow, opened, lbThrew>>
  /\ UNCHANGED <<fmtVars, buildVars>>

\* The touchend handler.
TouchEnd(x) ==
  LET diff == touchStartX - x
      abs == IF diff < 0 THEN -diff ELSE diff
  IN IF abs > SwipeThreshold
     THEN IF diff > 0 THEN ClickNext ELSE ClickPrev
     ELSE UNCHANGED vars

NextLightbox ==
  \/ \E k \in 0..(MaxSlides - 1) : ClickThumb(k)
  \/ ClickClose \/ ClickNext \/ ClickPrev \/ ClickFirst \/ ClickLast
  \/ \E key \in Keys : KeyDown(key)
  \/ \E x \in TouchXs : TouchStart(x)
  \/ \E x \in TouchXs : TouchEnd(x)

SpecLightbox == InitLightbox /\ [][NextLightbox]_vars

\* What showSlide leaves: one active slide, the current one, with the counter
\* and the comment link of that slide.
LightboxConsistent ==
  /\ lbIndex \in 0..(Len(slides) - 1)
  /\ activeSlides = {lbIndex}
  /\ counterText = lbIndex + 1
  /\ commentHref = slides[lbIndex + 1]
  /\ ~lbThrew

\* C10: once the lightbox has been opened from a thumbnail, after every event
\* the current index is in range, exactly the current slide is active, the
\* counter shows the index plus one and the comment link is that slide's post
\* URL; next from the last slide shows the first, previous from the first
\* shows the last, and a key pressed while the lightbox is closed changes
\* nothing.
C10_LightboxStaysConsistent ==
  [][/\ opened' => LightboxConsistent'
     /\ (opened /\ ClickNext /\ lbIndex = Len(slides) - 1) => lbIndex' = 0
     /\ (opened /\ ClickPrev /\ lbIndex = 0) => lbIndex' = Len(slides) - 1
     /\ (~lbActive /\ \E key \in Keys : KeyDown(key)) => UNCHANGED vars]_vars

\* C10's case: the lightbox was opened, moved by a swipe to the last of
\* several slides, and closed.
C10_OpenedNavigatedClosed ==
  /\ opened /\ ~lbActive
  /\ Len(slides) >= 2 /\ lbIndex = Len(slides) - 1
  /\ touchStartX # 0

====
